---- MODULE Spec2Model ----
(***************************************************************************)
(* The /metrics route of the search server                                 *)
(* (crates/meilisearch/src/routes/metrics.rs): the feature gate, the       *)
(* access-scope gate, the aggregation pass that folds the statistics of    *)
(* the index scheduler and of the search queue into the process-wide       *)
(* gauge registry, and the rendering of that registry.                     *)
(***************************************************************************)
EXTENDS Integers, Sequences, FiniteSets, TLC

\* ------------------------------------------------------------------ bounds
\* Largest number of documents an index holds.
MaxDocs == 1
\* Largest number of tasks in the scheduler's task log.
MaxTasks == 2

\* ------------------------------------------------------------------ time
\* An OffsetDateTime is a number of ticks since the Unix epoch; a second is
\* TicksPerSecond ticks, so that timestamps carry a sub-second part.
TicksPerSecond == 2

\* One task is enqueued per tick, the first at tick 1; the clock of a request
\* reads the tick after the last one a task can be enqueued at.
Now == MaxTasks + 1
Times == 1..Now

\* OffsetDateTime::unix_timestamp: the whole seconds, the sub-second part dropped.
UnixTimestamp(t) == t \div TicksPerSecond

\* (a - b).as_seconds_f64(): the signed duration in seconds, here in
\* thousandths of a second (1500 stands for 1.5).
AsSecondsF64(ticks) == (ticks * 1000) \div TicksPerSecond

\* ------------------------------------------------------------------ domains
IndexNames == {"movies", "products"}
\* response.indexes is a BTreeMap: its iteration follows the order of the names.
IndexOrder == <<"movies", "products">>

Kinds == {"documentAdditionOrUpdate"}
KindOrder == <<"documentAdditionOrUpdate">>
Statuses == {"enqueued", "processing", "succeeded"}
StatusOrder == <<"enqueued", "processing", "succeeded">>

\* Option<T>: None is the empty sequence, Some(v) the sequence of v alone.
None == <<>>
Some(v) == <<v>>

FailPoints == {"none", "create_all_stats", "get_stats", "is_task_processing",
               "get_tasks_from_authorized_indexes"}

\* ------------------------------------------------------------------ registry
\* The static gauges of crate::metrics, by the name of the static.
DB_SIZE == <<"MEILISEARCH_DB_SIZE_BYTES", <<>>>>
USED_DB_SIZE == <<"MEILISEARCH_USED_DB_SIZE_BYTES", <<>>>>
INDEX_COUNT == <<"MEILISEARCH_INDEX_COUNT", <<>>>>
SEARCH_QUEUE_SIZE == <<"MEILISEARCH_SEARCH_QUEUE_SIZE", <<>>>>
SEARCHES_RUNNING == <<"MEILISEARCH_SEARCHES_RUNNING", <<>>>>
SEARCHES_WAITING == <<"MEILISEARCH_SEARCHES_WAITING_TO_BE_PROCESSED", <<>>>>
INDEX_DOCS_COUNT(index) == <<"MEILISEARCH_INDEX_DOCS_COUNT", <<index>>>>
NB_TASKS(kind, value) == <<"MEILISEARCH_NB_TASKS", <<kind, value>>>>
LAST_UPDATE == <<"MEILISEARCH_LAST_UPDATE", <<>>>>
IS_INDEXING == <<"MEILISEARCH_IS_INDEXING", <<>>>>
TASK_QUEUE_LATENCY_SECONDS == <<"MEILISEARCH_TASK_QUEUE_LATENCY_SECONDS", <<>>>>

\* The registry before any gauge was touched: the statics are created on
\* first use, so no series exists yet.
EmptyRegistry == [k \in {} |-> 0]

\* A set that leaves a series that already exists as it is.
GaugeSetOnce(reg, key, v) ==
    [k \in (DOMAIN reg) \cup {key} |-> IF k \in DOMAIN reg THEN reg[k] ELSE v]

\* A set that adds to the value the series holds.
GaugeAdd(reg, key, v) ==
    [k \in (DOMAIN reg) \cup {key} |->
        IF k # key THEN reg[k] ELSE IF k \in DOMAIN reg THEN reg[k] + v ELSE v]

\* gauge.set(v) and gauge_vec.with_label_values(labels).set(v): the series of
\* that key holds v afterwards, every other series is left alone.
GaugeSet(reg, key, v) ==
    [k \in (DOMAIN reg) \cup {key} |-> IF k = key THEN v ELSE reg[k]]

\* One write of a pass.
Write(key, v) == [key |-> key, value |-> v]

RECURSIVE ApplyWrites(_, _)
ApplyWrites(reg, writes) ==
    IF writes = <<>> THEN reg
    ELSE ApplyWrites(GaugeSet(reg, Head(writes).key, Head(writes).value), Tail(writes))

\* encoder.encode(&prometheus::gather(), ..): one sample per series the
\* registry holds, under the exported name of its gauge.
ExportedName(static) ==
    CASE static = "MEILISEARCH_DB_SIZE_BYTES" -> "database_size_bytes"
      [] static = "MEILISEARCH_USED_DB_SIZE_BYTES" -> "used_database_size_bytes"
      [] static = "MEILISEARCH_INDEX_COUNT" -> "index_count"
      [] static = "MEILISEARCH_SEARCH_QUEUE_SIZE" -> "search_queue_size"
      [] static = "MEILISEARCH_SEARCHES_RUNNING" -> "searches_running"
      [] static = "MEILISEARCH_SEARCHES_WAITING_TO_BE_PROCESSED" -> "searches_waiting_to_be_processed"
      [] static = "MEILISEARCH_INDEX_DOCS_COUNT" -> "index_docs_count"
      [] static = "MEILISEARCH_NB_TASKS" -> "nb_tasks"
      [] static = "MEILISEARCH_LAST_UPDATE" -> "last_update"
      [] static = "MEILISEARCH_IS_INDEXING" -> "is_indexing"
      [] static = "MEILISEARCH_TASK_QUEUE_LATENCY_SECONDS" -> "task_queue_latency_seconds"

Sample(name, labels, v) == [name |-> name, labels |-> labels, value |-> v]

Render(reg) == {Sample(ExportedName(k[1]), k[2], reg[k]) : k \in DOMAIN reg}

\* ------------------------------------------------------------------ subsystems
\* What one request finds in the subsystems it reads: the index store, the
\* search queue, the scheduler's task log and the clock, and which of the
\* fallible calls (if any) fails.
IndexStats == [number_of_documents : 0..MaxDocs]
IndexMaps == UNION {[S -> IndexStats] : S \in SUBSET IndexNames}
LastUpdates == {None} \cup {Some(t) : t \in Times}
IdleQueue == [capacity |-> 20, running |-> 0, waiting |-> 0]
BusyQueue == [capacity |-> 20, running |-> 3, waiting |-> 5]
QueueReadings == {IdleQueue, BusyQueue}
Task == [kind : Kinds, status : Statuses, enqueued_at : Times]
\* The task log in the order of the task ids, which is the order of enqueueing.
TaskLogs ==
    {log \in UNION {[1..n -> Task] : n \in 0..MaxTasks} :
        \A i \in DOMAIN log : log[i].enqueued_at = i}

RECURSIVE SumDocs(_, _)
SumDocs(indexes, names) ==
    IF names = {} THEN 0
    ELSE LET n == CHOOSE x \in names : TRUE
         IN indexes[n].number_of_documents + SumDocs(indexes, names \ {n})

\* create_all_stats: the sizes of the store, its indexes and the time of the
\* last update. Every index and every document takes one unit of the store,
\* and the file is one unit larger than what is used.
CreateAllStats(w) ==
    LET used == Cardinality(DOMAIN w.indexes) + SumDocs(w.indexes, DOMAIN w.indexes)
    IN [database_size |-> used + 1,
        used_database_size |-> used,
        indexes |-> w.indexes,
        last_update |-> w.last_update]

\* IndexScheduler::get_stats: for every kind and every status of the
\* scheduler's enumerations, the number of such tasks in the task log.
GetStats(w) ==
    [p \in Kinds \X Statuses |->
        Cardinality({i \in DOMAIN w.tasks : <<w.tasks[i].kind, w.tasks[i].status>> = p})]

\* IndexScheduler::is_task_processing
IsTaskProcessing(w) == \E i \in DOMAIN w.tasks : w.tasks[i].status = "processing"

Reverse(s) == [i \in 1..Len(s) |-> s[Len(s) + 1 - i]]
Take(s, n) == IF Len(s) <= n THEN s ELSE SubSeq(s, 1, n)
HasStatus(statuses, t) == t.status \in statuses

\* IndexScheduler::get_tasks_from_authorized_indexes: the tasks matching the
\* statuses of the query, the most recently enqueued first when the query
\* is reversed, at most query.limit of them.
GetTasks(w, query) ==
    LET Matches(t) == HasStatus(query.statuses, t)
        matching == SelectSeq(w.tasks, Matches)
    IN Take(IF query.reverse THEN Reverse(matching) ELSE matching, query.limit)

\* ------------------------------------------------------------------ the pass
\* The query without its statuses.
PendingTaskQueryAnyStatus == [limit |-> 1, reverse |-> TRUE, statuses |-> Statuses]

\* The query without its reversal.
PendingTaskQueryForward ==
    [limit |-> 1, reverse |-> FALSE, statuses |-> {"enqueued", "processing"}]

\* The query of the pending task.
PendingTaskQuery ==
    [limit |-> 1, reverse |-> TRUE, statuses |-> {"enqueued", "processing"}]

\* The six gauges of the store and of the search queue. The `as i64` casts
\* change no value below 2^63, and every value here is far below.
WritesOfStats(response, queue) ==
    << Write(DB_SIZE, response.database_size),
       Write(USED_DB_SIZE, response.used_database_size),
       Write(INDEX_COUNT, Cardinality(DOMAIN response.indexes)),
       Write(SEARCH_QUEUE_SIZE, queue.capacity),
       Write(SEARCHES_RUNNING, queue.running),
       Write(SEARCHES_WAITING, queue.waiting) >>

\* The loop with the label of the first index on every series.
WritesOfIndexesOneLabel(response) ==
    LET Present(name) == name \in DOMAIN response.indexes
        names == SelectSeq(IndexOrder, Present)
    IN [i \in 1..Len(names) |->
           Write(INDEX_DOCS_COUNT(names[1]), response.indexes[names[i]].number_of_documents)]

\* for (index, value) in response.indexes.iter()
WritesOfIndexes(response) ==
    LET Present(name) == name \in DOMAIN response.indexes
        names == SelectSeq(IndexOrder, Present)
    IN [i \in 1..Len(names) |->
           Write(INDEX_DOCS_COUNT(names[i]), response.indexes[names[i]].number_of_documents)]

RECURSIVE PairOrderFrom(_)
PairOrderFrom(i) ==
    IF i > Len(KindOrder) THEN <<>>
    ELSE [j \in 1..Len(StatusOrder) |-> <<KindOrder[i], StatusOrder[j]>>] \o PairOrderFrom(i + 1)

\* for (kind, value) in get_stats()? { for (value, count) in value { .. } }
WritesOfTasks(stats) ==
    LET Present(pair) == pair \in DOMAIN stats
        pairs == SelectSeq(PairOrderFrom(1), Present)
    IN [i \in 1..Len(pairs) |-> Write(NB_TASKS(pairs[i][1], pairs[i][2]), stats[pairs[i]])]

\* The gauge set to 0 when there is no last update.
WriteOfLastUpdateOrZero(response) ==
    IF response.last_update = None THEN << Write(LAST_UPDATE, 0) >>
    ELSE << Write(LAST_UPDATE, UnixTimestamp(response.last_update[1])) >>

\* if let Some(last_update) = response.last_update
WriteOfLastUpdate(response) ==
    IF response.last_update = None THEN <<>>
    ELSE << Write(LAST_UPDATE, UnixTimestamp(response.last_update[1])) >>

WriteOfIsIndexing(w) == << Write(IS_INDEXING, IF IsTaskProcessing(w) THEN 1 ELSE 0) >>

\* .first().map(|task| (now_utc() - task.enqueued_at).as_seconds_f64()).unwrap_or(0.0)
TaskQueueLatencySeconds(w) ==
    LET found == GetTasks(w, PendingTaskQuery)
    IN IF found = <<>> THEN 0 ELSE AsSecondsF64(w.now - found[1].enqueued_at)

WriteOfLatency(w) == << Write(TASK_QUEUE_LATENCY_SECONDS, TaskQueueLatencySeconds(w)) >>

\* A pass that collects everything first and writes only when no call failed.
PassWritesAllOrNothing(w) ==
    IF w.fail # "none" THEN <<>>
    ELSE
      LET response == CreateAllStats(w)
      IN WritesOfStats(response, w.queue) \o WritesOfIndexes(response)
           \o WritesOfTasks(GetStats(w)) \o WriteOfLastUpdate(response)
           \o WriteOfIsIndexing(w) \o WriteOfLatency(w)

\* The writes of one pass in the order of the code, up to the call that fails.
PassWrites(w) ==
    IF w.fail = "create_all_stats" THEN <<>>
    ELSE
      LET response == CreateAllStats(w)
          first == WritesOfStats(response, w.queue) \o WritesOfIndexes(response)
      IN IF w.fail = "get_stats" THEN first
         ELSE
           LET second == first \o WritesOfTasks(GetStats(w)) \o WriteOfLastUpdate(response)
           IN IF w.fail = "is_task_processing" THEN second
              ELSE
                LET third == second \o WriteOfIsIndexing(w)
                IN IF w.fail = "get_tasks_from_authorized_indexes" THEN third
                   ELSE third \o WriteOfLatency(w)

\* The calls into the scheduler, the index store and the search queue that
\* one pass makes, in order, the failing one included.
CallOrder ==
    << "create_all_stats", "search_queue", "get_stats", "is_task_processing",
       "get_tasks_from_authorized_indexes" >>

IndexIn(x, s) == CHOOSE i \in 1..Len(s) : s[i] = x

PassCalls(w) ==
    IF w.fail = "none" THEN CallOrder ELSE SubSeq(CallOrder, 1, IndexIn(w.fail, CallOrder))

\* ------------------------------------------------------------------ responses
NoBody == {}
FeatureDisabled == [status |-> "feature_not_enabled", message |-> "", body |-> NoBody]
\* AuthenticationError::InvalidToken with the sentence pushed onto its message
\* (the source quotes /metrics in backquotes, which a string here cannot hold).
AccessDenied ==
    [status |-> "invalid_api_key",
     message |-> "The API key for the /metrics route must allow access to all indexes.",
     body |-> NoBody]
AggregationError(origin) == [status |-> "internal", message |-> origin, body |-> NoBody]
Ok(body) == [status |-> "ok", message |-> "", body |-> body]

\* No response yet.
NoResponse == [status |-> "none", message |-> "", body |-> NoBody]

\* get_metrics without the test of all_indexes_authorized.
HandleUnscoped(reg, feature, all_indexes_authorized, w) ==
    IF ~feature
    THEN [response |-> FeatureDisabled, registry |-> reg, calls |-> <<>>]
    ELSE
      LET after == ApplyWrites(reg, PassWrites(w))
      IN [response |-> IF w.fail = "none" THEN Ok(Render(after)) ELSE AggregationError(w.fail),
          registry |-> after,
          calls |-> PassCalls(w)]

\* get_metrics with the filter tested before the feature.
HandleScopeFirst(reg, feature, all_indexes_authorized, w) ==
    IF ~all_indexes_authorized
    THEN [response |-> AccessDenied, registry |-> reg, calls |-> <<>>]
    ELSE IF ~feature
    THEN [response |-> FeatureDisabled, registry |-> reg, calls |-> <<>>]
    ELSE
      LET after == ApplyWrites(reg, PassWrites(w))
      IN [response |-> IF w.fail = "none" THEN Ok(Render(after)) ELSE AggregationError(w.fail),
          registry |-> after,
          calls |-> PassCalls(w)]

\* get_metrics: what it returns, the registry it leaves and the calls it made.
Handle(reg, feature, all_indexes_authorized, w) ==
    IF ~feature
    THEN [response |-> FeatureDisabled, registry |-> reg, calls |-> <<>>]
    ELSE IF ~all_indexes_authorized
    THEN [response |-> AccessDenied, registry |-> reg, calls |-> <<>>]
    ELSE
      LET after == ApplyWrites(reg, PassWrites(w))
      IN [response |-> IF w.fail = "none" THEN Ok(Render(after)) ELSE AggregationError(w.fail),
          registry |-> after,
          calls |-> PassCalls(w)]

\* ------------------------------------------------------------------ state
VARIABLES
    registry,   \* the process-wide gauges: key -> value, for the series that exist
    req,        \* the latest request: the feature flag, the filter, what it found
    resp,       \* the response to the latest request
    calls,      \* the subsystem calls the latest request made
    history,    \* what preceded the latest request (kept for the properties)
    passes,     \* the overlapping requests: where each is in its pass
    lastw       \* key -> the overlapping request that wrote it last

vars == <<registry, req, resp, calls, history, passes, lastw>>

NoIndexes == [n \in {} |-> [number_of_documents |-> 0]]

\* A request that reads nothing, or not everything, finds the rest as it is here.
QuietWorld ==
    [indexes |-> NoIndexes, last_update |-> None, queue |-> IdleQueue,
     tasks |-> <<>>, now |-> Now, fail |-> "none"]

\* A failing call ends the pass: what the later calls would have found is
\* never read, and is left as in the quiet world.
Failing(worlds) ==
    {[QuietWorld EXCEPT !.fail = "create_all_stats"]}
    \cup {[w EXCEPT !.fail = "get_stats", !.last_update = None, !.tasks = <<>>] : w \in worlds}
    \cup {[w EXCEPT !.fail = f, !.now = Now] :
            w \in worlds, f \in {"is_task_processing", "get_tasks_from_authorized_indexes"}}

\* The clock of a request reads Now or one tick later.
Clocks == {Now, Now + 1}

\* The requests that find a scheduler at rest, and a store that differs from
\* the quiet one in its indexes, in the time of its last update or in the
\* load of the search queue.
StoreWorlds ==
    LET found == {[QuietWorld EXCEPT !.indexes = ix] : ix \in IndexMaps}
                 \cup {[QuietWorld EXCEPT !.last_update = lu] : lu \in LastUpdates}
                 \cup {[QuietWorld EXCEPT !.queue = q] : q \in QueueReadings}
    IN found \cup Failing(found)

\* The requests that find a task log of any shape and a store at rest.
SchedulerWorlds ==
    LET found == {[QuietWorld EXCEPT !.tasks = log, !.now = n] :
                    log \in TaskLogs, n \in Clocks}
    IN found \cup Failing(found)

\* Two requests served at the same time by two workers.
Scrapers == {"a", "b"}
Idle == [pc |-> "idle", world |-> QuietWorld, todo |-> <<>>, response |-> NoResponse]

\* What the overlapping requests find: one index, two indexes updated a
\* moment ago, and a search queue under load with a scheduler that fails.
OverlapWorlds ==
    { [QuietWorld EXCEPT !.indexes = [n \in {"movies"} |-> [number_of_documents |-> 1]]],
      [QuietWorld EXCEPT !.indexes = [n \in IndexNames |-> [number_of_documents |-> 0]],
                         !.last_update = Some(Now)],
      [QuietWorld EXCEPT !.queue = BusyQueue, !.fail = "is_task_processing"] }

NoRequest == [feature |-> FALSE, all_indexes_authorized |-> FALSE, world |-> QuietWorld]

Init ==
    /\ registry = EmptyRegistry
    /\ req = NoRequest
    /\ resp = NoResponse
    /\ calls = <<>>
    /\ history = [same_request |-> FALSE, latency |-> None]
    /\ passes = [p \in Scrapers |-> Idle]
    /\ lastw = [k \in {} |-> "a"]

\* GET /metrics
GetMetrics(feature, all_indexes_authorized, w) ==
    LET out == Handle(registry, feature, all_indexes_authorized, w)
    IN /\ registry' = out.registry
       /\ resp' = out.response
       /\ calls' = out.calls
       /\ req' = [feature |-> feature,
                  all_indexes_authorized |-> all_indexes_authorized,
                  world |-> w]
       /\ history' =
            [same_request |->
                 /\ resp.status # "none"
                 /\ req = [feature |-> feature,
                           all_indexes_authorized |-> all_indexes_authorized,
                           world |-> w],
             latency |->
                 IF TASK_QUEUE_LATENCY_SECONDS \in DOMAIN registry
                 THEN Some(registry[TASK_QUEUE_LATENCY_SECONDS]) ELSE None]
       /\ UNCHANGED <<passes, lastw>>

Rejected ==
    \E feature, all \in BOOLEAN :
        /\ ~(feature /\ all)
        /\ GetMetrics(feature, all, QuietWorld)

ScrapeStore == \E w \in StoreWorlds : GetMetrics(TRUE, TRUE, w)

ScrapeScheduler == \E w \in SchedulerWorlds : GetMetrics(TRUE, TRUE, w)

Next == Rejected \/ ScrapeStore

Spec == Init /\ [][Next]_vars

NextTasks == Rejected \/ ScrapeScheduler

SpecTasks == Init /\ [][NextTasks]_vars

\* ------------------------------------------------------------------ overlap
\* Two requests at once, both with the feature enabled and a filter that
\* covers all indexes. Each gauge.set is one atomic store; between two of
\* them the other request may run.

\* The request passes both gates and collects what it will find.
Begin(p, w) ==
    /\ passes[p].pc = "idle"
    /\ passes' = [passes EXCEPT ![p] = [pc |-> "writing", world |-> w,
                                        todo |-> PassWrites(w), response |-> NoResponse]]
    /\ UNCHANGED <<registry, lastw, req, resp, calls, history>>

\* The next gauge.set of the pass.
SetNext(p) ==
    /\ passes[p].pc = "writing"
    /\ passes[p].todo # <<>>
    /\ LET wr == Head(passes[p].todo)
       IN /\ registry' = GaugeSet(registry, wr.key, wr.value)
          /\ lastw' = [k \in (DOMAIN lastw) \cup {wr.key} |->
                          IF k = wr.key THEN p ELSE lastw[k]]
    /\ passes' = [passes EXCEPT ![p].todo = Tail(passes[p].todo)]
    /\ UNCHANGED <<req, resp, calls, history>>

\* The pass is over: the error of the failing call, or the registry rendered
\* (each series read once, at whatever value it holds then).
End(p) ==
    /\ passes[p].pc = "writing"
    /\ passes[p].todo = <<>>
    /\ passes' = [passes EXCEPT
                     ![p].pc = "done",
                     ![p].response =
                         IF passes[p].world.fail = "none" THEN Ok(Render(registry))
                         ELSE AggregationError(passes[p].world.fail)]
    /\ UNCHANGED <<registry, lastw, req, resp, calls, history>>

NextOverlap ==
    \E p \in Scrapers :
        \/ \E w \in OverlapWorlds : Begin(p, w)
        \/ SetNext(p)
        \/ End(p)

SpecOverlap == Init /\ [][NextOverlap]_vars

\* ------------------------------------------------------------------ properties
\* Every step is one request: req' is what it was given and found, registry
\* the gauges before it and registry' the gauges after it.

\* C1: with the feature enabled, a request whose filter does not cover all
\* indexes is answered with the invalid-token error carrying the sentence
\* about /metrics, makes no subsystem call and leaves every gauge as it was.
C1_DeniedTouchesNothing ==
    [][(req'.feature /\ ~req'.all_indexes_authorized) =>
          /\ resp' = AccessDenied
          /\ calls' = <<>>
          /\ registry' = registry]_vars

C1_Witness ==
    /\ req.feature /\ ~req.all_indexes_authorized
    /\ resp.status = "invalid_api_key"
    /\ calls = <<>>
    /\ DB_SIZE \in DOMAIN registry

\* C2: with the feature disabled every request is answered FeatureDisabled,
\* whether or not its filter covers all indexes; it makes no subsystem call
\* and writes no gauge.
C2_DisabledFirst ==
    [][~req'.feature =>
          /\ resp' = FeatureDisabled
          /\ calls' = <<>>
          /\ registry' = registry]_vars

C2_Witness ==
    /\ ~req.feature /\ ~req.all_indexes_authorized
    /\ resp.status = "feature_not_enabled"
    /\ DB_SIZE \in DOMAIN registry

\* What a pass reports, stated per gauge.
StoreKeys(w) ==
    {DB_SIZE, USED_DB_SIZE, INDEX_COUNT, SEARCH_QUEUE_SIZE, SEARCHES_RUNNING, SEARCHES_WAITING}
    \cup {INDEX_DOCS_COUNT(n) : n \in DOMAIN w.indexes}
TaskKeys == {NB_TASKS(p[1], p[2]) : p \in Kinds \X Statuses}
LastUpdateKeys(w) == IF w.last_update = None THEN {} ELSE {LAST_UPDATE}

\* The keys a pass writes before the call that fails, all of its keys when none does.
KeysWritten(w) ==
    CASE w.fail = "create_all_stats" -> {}
      [] w.fail = "get_stats" -> StoreKeys(w)
      [] w.fail = "is_task_processing" -> StoreKeys(w) \cup TaskKeys \cup LastUpdateKeys(w)
      [] w.fail = "get_tasks_from_authorized_indexes" ->
            StoreKeys(w) \cup TaskKeys \cup LastUpdateKeys(w) \cup {IS_INDEXING}
      [] w.fail = "none" ->
            StoreKeys(w) \cup TaskKeys \cup LastUpdateKeys(w)
              \cup {IS_INDEXING, TASK_QUEUE_LATENCY_SECONDS}

Pending(w) == {i \in DOMAIN w.tasks : w.tasks[i].status \in {"enqueued", "processing"}}
NewestPending(w) ==
    CHOOSE i \in Pending(w) :
        \A j \in Pending(w) : w.tasks[j].enqueued_at <= w.tasks[i].enqueued_at
OldestPending(w) ==
    CHOOSE i \in Pending(w) :
        \A j \in Pending(w) : w.tasks[i].enqueued_at <= w.tasks[j].enqueued_at
\* Seconds between two clock readings, in thousandths.
SecondsBetween(from, to) == ((to - from) * 1000) \div TicksPerSecond

Reported(w, key) ==
    CASE key = DB_SIZE -> CreateAllStats(w).database_size
      [] key = USED_DB_SIZE -> CreateAllStats(w).used_database_size
      [] key = INDEX_COUNT -> Cardinality(DOMAIN w.indexes)
      [] key = SEARCH_QUEUE_SIZE -> w.queue.capacity
      [] key = SEARCHES_RUNNING -> w.queue.running
      [] key = SEARCHES_WAITING -> w.queue.waiting
      [] key[1] = "MEILISEARCH_INDEX_DOCS_COUNT" -> w.indexes[key[2][1]].number_of_documents
      [] key[1] = "MEILISEARCH_NB_TASKS" ->
            Cardinality({i \in DOMAIN w.tasks :
                            w.tasks[i].kind = key[2][1] /\ w.tasks[i].status = key[2][2]})
      [] key = LAST_UPDATE -> w.last_update[1] \div TicksPerSecond
      [] key = IS_INDEXING ->
            IF \E i \in DOMAIN w.tasks : w.tasks[i].status = "processing" THEN 1 ELSE 0
      [] key = TASK_QUEUE_LATENCY_SECONDS ->
            IF Pending(w) = {} THEN 0
            ELSE SecondsBetween(w.tasks[NewestPending(w)].enqueued_at, w.now)

\* The gauges after a step are those before it, but for the keys of `keys`,
\* which hold what the pass of req' reports.
OnlyWritten(keys) ==
    /\ DOMAIN registry' = (DOMAIN registry) \cup keys
    /\ \A k \in keys : registry'[k] = Reported(req'.world, k)
    /\ \A k \in (DOMAIN registry) \ keys : registry'[k] = registry[k]

\* C3 as claimed: a pass in which a retrieval fails returns the failure and
\* leaves every gauge as it was before the pass.
C3_NoPartialWrite ==
    [][resp'.status = "internal" =>
          /\ resp'.message = req'.world.fail
          /\ registry' = registry]_vars

\* C3 as amended: a pass in which a retrieval fails returns that failure and
\* makes no later call; the gauges written before the failing call hold the
\* values of this pass (none for create_all_stats; the store, the search
\* queue and the indexes for get_stats; the task counts and the last update
\* as well for is_task_processing; is_indexing as well for
\* get_tasks_from_authorized_indexes) and every other gauge is as before.
C3_PartialWriteUpToFailure ==
    [][resp'.status = "internal" =>
          /\ resp'.message = req'.world.fail
          /\ req'.world.fail # "none"
          /\ calls' # <<>> /\ calls'[Len(calls')] = req'.world.fail
          /\ TASK_QUEUE_LATENCY_SECONDS \notin KeysWritten(req'.world)
          /\ OnlyWritten(KeysWritten(req'.world))]_vars

C3_Witness ==
    /\ resp.status = "internal"
    /\ req.world.fail = "get_stats"
    /\ req.world.indexes # NoIndexes
    /\ registry[INDEX_COUNT] = Cardinality(DOMAIN req.world.indexes)
    /\ LAST_UPDATE \in DOMAIN registry
    /\ TASK_QUEUE_LATENCY_SECONDS \in DOMAIN registry

DocsSample(index, n) == Sample("index_docs_count", <<index>>, n)

\* C4 as claimed: the output of a successful pass holds index_docs_count of
\* every index of the pass with its number of documents, and no
\* index_docs_count of an index the pass did not enumerate.
C4_OnlyEnumeratedIndexes ==
    resp.status = "ok" =>
        /\ \A n \in DOMAIN req.world.indexes :
              DocsSample(n, req.world.indexes[n].number_of_documents) \in resp.body
        /\ \A smp \in resp.body :
              smp.name = "index_docs_count" => smp.labels[1] \in DOMAIN req.world.indexes

\* C4 as amended: the output of a successful pass holds index_docs_count of
\* every index of the pass with exactly its number of documents; of an index
\* the pass did not enumerate it holds exactly the series the registry held
\* before the pass, with the number an earlier pass wrote, and none when no
\* earlier pass enumerated that index.
C4_EnumeratedExactOthersKept ==
    [][resp'.status = "ok" =>
          \A smp \in [name : {"index_docs_count"}, labels : {<<n>> : n \in IndexNames},
                       value : 0..(MaxDocs + 1)] :
              smp \in resp'.body <=>
                  LET n == smp.labels[1]
                  IN IF n \in DOMAIN req'.world.indexes
                     THEN smp.value = req'.world.indexes[n].number_of_documents
                     ELSE /\ INDEX_DOCS_COUNT(n) \in DOMAIN registry
                          /\ registry[INDEX_DOCS_COUNT(n)] = smp.value]_vars

C4_Witness ==
    /\ resp.status = "ok"
    /\ DOMAIN req.world.indexes = {"movies"}
    /\ DocsSample("movies", req.world.indexes["movies"].number_of_documents) \in resp.body
    /\ \E smp \in resp.body : smp.name = "index_docs_count" /\ smp.labels = <<"products">>

\* C5: a successful pass leaves every key it writes with the value of this
\* pass and every other key with the value it had; no step removes a key.
C5_SnapshotSemantics ==
    [][/\ DOMAIN registry \subseteq DOMAIN registry'
       /\ resp'.status = "ok" => OnlyWritten(KeysWritten(req'.world))]_vars

C5_Witness ==
    /\ resp.status = "ok"
    /\ req.world.indexes # NoIndexes
    /\ \E n \in IndexNames :
          /\ n \notin DOMAIN req.world.indexes
          /\ INDEX_DOCS_COUNT(n) \in DOMAIN registry
    /\ req.world.last_update = None /\ LAST_UPDATE \in DOMAIN registry

LatencySample(v) == Sample("task_queue_latency_seconds", <<>>, v)

\* C6: after a successful pass that finds no enqueued and no processing task
\* task_queue_latency_seconds is 0, whatever an earlier pass left in it.
C6_LatencyDefaultsToZero ==
    (resp.status = "ok" /\ Pending(req.world) = {}) =>
        /\ registry[TASK_QUEUE_LATENCY_SECONDS] = 0
        /\ \A v \in 0..SecondsBetween(0, Now + 1) :
              LatencySample(v) \in resp.body <=> v = 0

C6_Witness ==
    /\ resp.status = "ok"
    /\ req.world.tasks # <<>> /\ Pending(req.world) = {}
    /\ history.latency # None /\ history.latency[1] > 0
    /\ registry[TASK_QUEUE_LATENCY_SECONDS] = 0

C8_SameInputSameOutput ==
    [][(history'.same_request /\ resp.status = "ok" /\ resp'.status = "ok") =>
          /\ registry' = registry
          /\ resp'.body = resp.body]_vars

C8_Witness ==
    /\ history.same_request
    /\ resp.status = "ok"
    /\ req.world.indexes # NoIndexes
    /\ \E n \in IndexNames :
          /\ n \notin DOMAIN req.world.indexes
          /\ INDEX_DOCS_COUNT(n) \in DOMAIN registry

\* The pass of a step reaches the statement that sets last_update.
ReachesLastUpdate(w) == w.fail \notin {"create_all_stats", "get_stats"}

\* C10: last_update is written only by a pass whose statistics carry the
\* time of a last update: unset at the start, it is left as it is (unset, or
\* at what an earlier pass wrote) by every other step, and after a pass that
\* carries one it is that time in whole Unix seconds.
C10_LastUpdateOnlyWhenCarried ==
    /\ LAST_UPDATE \notin DOMAIN registry
    /\ [][IF /\ req'.feature /\ req'.all_indexes_authorized
              /\ ReachesLastUpdate(req'.world)
              /\ req'.world.last_update # None
           THEN /\ LAST_UPDATE \in DOMAIN registry'
                /\ registry'[LAST_UPDATE] = req'.world.last_update[1] \div TicksPerSecond
           ELSE /\ LAST_UPDATE \in DOMAIN registry' <=> LAST_UPDATE \in DOMAIN registry
                /\ LAST_UPDATE \in DOMAIN registry =>
                      registry'[LAST_UPDATE] = registry[LAST_UPDATE]]_vars

C10_Witness ==
    /\ resp.status = "ok"
    /\ req.world.last_update = None
    /\ LAST_UPDATE \in DOMAIN registry
    /\ registry[LAST_UPDATE] = 1

BothDone == \A p \in Scrapers : passes[p].pc = "done"
\* The keys the pass of p has written so far.
WrittenSoFar(p) ==
    IF passes[p].pc = "idle" THEN {}
    ELSE KeysWritten(passes[p].world)
           \ {passes[p].todo[i].key : i \in DOMAIN passes[p].todo}

\* C9: with two passes interleaved at will, every series holds at every
\* moment exactly what the pass that wrote it last reports for it, never
\* another value; once both are over, the series are those written by
\* either pass, each with the value of its last writer.
C9_LastWriterWins ==
    /\ DOMAIN lastw = DOMAIN registry
    /\ DOMAIN registry = UNION {WrittenSoFar(p) : p \in Scrapers}
    /\ \A k \in DOMAIN registry :
          /\ k \in WrittenSoFar(lastw[k])
          /\ registry[k] = Reported(passes[lastw[k]].world, k)
    /\ BothDone =>
          DOMAIN registry = UNION {KeysWritten(passes[p].world) : p \in Scrapers}

\* Both passes are over, the registry mixes gauges of the two (one key of a
\* holds the different value of b, one key of b the different value of a),
\* and the response of a holds a value that its own pass did not report.
C9_Witness ==
    /\ BothDone
    /\ passes["a"].response.status = "ok"
    /\ \E k \in KeysWritten(passes["a"].world) \cap KeysWritten(passes["b"].world) :
          /\ Reported(passes["a"].world, k) # Reported(passes["b"].world, k)
          /\ lastw[k] = "b"
          /\ Sample(ExportedName(k[1]), k[2], Reported(passes["b"].world, k))
                \in passes["a"].response.body
    /\ \E k \in KeysWritten(passes["a"].world) \cap KeysWritten(passes["b"].world) :
          /\ Reported(passes["a"].world, k) # Reported(passes["b"].world, k)
          /\ lastw[k] = "a"

====
